---- MODULE Spec2Model ----
(***************************************************************************)
(* A model of the RADA AMS chatbot's retrieval-augmentation pipeline       *)
(* (src/chatbot_engine.py) and of its top-level handler                    *)
(* (src/main_app.py).                                                      *)
(*                                                                         *)
(* Python strings are TLA+ strings; TLC evaluates Len, \o and SubSeq on    *)
(* them.  The glyph that starts the two error prefixes is written "(!)"    *)
(* and the glyph that starts the no-data message is written "(x)".         *)
(***************************************************************************)
EXTENDS Integers, Sequences, FiniteSets, TLC

(***************************************************************************)
(* Strings: the str methods and the re functions expand_query uses.        *)
(***************************************************************************)
LOWERCASE == "abcdefghijklmnopqrstuvwxyz"
UPPERCASE == "ABCDEFGHIJKLMNOPQRSTUVWXYZ"
DIGITS == "0123456789"

Char(s, i) == SubSeq(s, i, i)

CharsOf(s) == {Char(s, i) : i \in 1..Len(s)}

LowerSet == CharsOf(LOWERCASE)
UpperSet == CharsOf(UPPERCASE)

ToUpper == [c \in LowerSet |-> Char(UPPERCASE, CHOOSE i \in 1..Len(LOWERCASE) : Char(LOWERCASE, i) = c)]
ToLower == [c \in UpperSet |-> Char(LOWERCASE, CHOOSE i \in 1..Len(UPPERCASE) : Char(UPPERCASE, i) = c)]

UpperChar(c) == IF c \in LowerSet THEN ToUpper[c] ELSE c

LowerChar(c) == IF c \in UpperSet THEN ToLower[c] ELSE c

RECURSIVE upper(_)
\* str.upper()
upper(s) == IF Len(s) = 0 THEN "" ELSE UpperChar(Char(s, 1)) \o upper(Tail(s))

RECURSIVE lower(_)
\* str.lower()
lower(s) == IF Len(s) = 0 THEN "" ELSE LowerChar(Char(s, 1)) \o lower(Tail(s))

\* s[p:p+len(sub)] == sub
StartsAt(s, sub, p) ==
    /\ p >= 1
    /\ p + Len(sub) - 1 <= Len(s)
    /\ SubSeq(s, p, p + Len(sub) - 1) = sub

\* sub in s, for a non-empty sub
Contains(s, sub) == \E p \in 1..Len(s) : Char(s, p) = Char(sub, 1) /\ StartsAt(s, sub, p)

RECURSIVE ReplaceFrom(_, _, _, _)
ReplaceFrom(s, old, new, p) ==
    IF p > Len(s) THEN ""
    ELSE IF StartsAt(s, old, p)
         THEN new \o ReplaceFrom(s, old, new, p + Len(old))
         ELSE Char(s, p) \o ReplaceFrom(s, old, new, p + 1)

\* str.replace(old, new) for a non-empty old: every non-overlapping
\* occurrence, left to right, compared case-sensitively
replace(s, old, new) == ReplaceFrom(s, old, new, 1)

(***************************************************************************)
(* Regular expressions.  A pattern is a sequence of items; an item is a    *)
(* character class repeated min..max times (greedy) or an alternation of   *)
(* literal words (tried in order).  group is the index of the item that    *)
(* is the pattern's one capture group, 0 when the pattern has none.        *)
(***************************************************************************)
Unbounded == 0 - 1

Cls(chars, min, max) == [kind |-> "cls", chars |-> chars, min |-> min, max |-> max, words |-> <<>>]

Alt(words) == [kind |-> "alt", chars |-> {}, min |-> 1, max |-> 1, words |-> words]

UpperC == UpperSet
DigitC == CharsOf(DIGITS)
SpaceC == {" "}

RECURSIVE RunLength(_, _, _, _)
\* number of consecutive characters of s from p on that are in the class, at most cap
RunLength(s, p, chars, cap) ==
    IF cap = 0 \/ p > Len(s) \/ Char(s, p) \notin chars THEN 0
    ELSE 1 + RunLength(s, p + 1, chars, cap - 1)

RECURSIVE MatchItems(_, _, _, _)
RECURSIVE TryCount(_, _, _, _, _)
RECURSIVE TryWords(_, _, _, _, _)

\* The backtracking matcher: items k.. of the pattern matched against s
\* from position p.  The result is the sequence of the positions where
\* items k, k+1, ... start, followed by the position after the match;
\* <<>> when there is no match.
MatchItems(items, k, s, p) ==
    IF k > Len(items) THEN <<p>>
    ELSE IF items[k].kind = "cls"
         THEN LET cap == IF items[k].max = Unbounded THEN Len(s) ELSE items[k].max
              IN  TryCount(items, k, s, p, RunLength(s, p, items[k].chars, cap))
         ELSE TryWords(items, k, s, p, 1)

TryCount(items, k, s, p, n) ==
    IF n < items[k].min THEN <<>>
    ELSE LET rest == MatchItems(items, k + 1, s, p + n)
         IN  IF rest # <<>> THEN <<p>> \o rest
             ELSE TryCount(items, k, s, p, n - 1)

TryWords(items, k, s, p, w) ==
    IF w > Len(items[k].words) THEN <<>>
    ELSE LET rest == IF StartsAt(s, items[k].words[w], p)
                     THEN MatchItems(items, k + 1, s, p + Len(items[k].words[w]))
                     ELSE <<>>
         IN  IF rest # <<>> THEN <<p>> \o rest
             ELSE TryWords(items, k, s, p, w + 1)

\* re.IGNORECASE: the pattern and the subject are compared in lower case
FoldItem(item) ==
    [kind |-> item.kind, chars |-> {LowerChar(c) : c \in item.chars},
     min |-> item.min, max |-> item.max,
     words |-> [i \in 1..Len(item.words) |-> lower(item.words[i])]]

FoldItems(items) == [k \in 1..Len(items) |-> FoldItem(items[k])]

RECURSIVE FindAllFrom(_, _, _, _, _)
\* the scan of findall from position p: folded is the subject the items
\* are matched against, s the subject the found text is taken from
FindAllFrom(items, group, s, folded, p) ==
    IF p > Len(s) THEN <<>>
    ELSE LET m == MatchItems(items, 1, folded, p)
         IN  IF m = <<>> THEN FindAllFrom(items, group, s, folded, p + 1)
             ELSE LET found == IF group = 0
                               THEN SubSeq(s, m[1], m[Len(m)] - 1)
                               ELSE SubSeq(s, m[group], m[group + 1] - 1)
                  IN  <<found>> \o FindAllFrom(items, group, s, folded, m[Len(m)])

\* re.findall(pattern, s, flags): the non-overlapping matches, left to
\* right; the text of the capture group when the pattern has one
findall(pattern, s, ic) ==
    IF ic THEN FindAllFrom(FoldItems(pattern.items), pattern.group, s, lower(s), 1)
          ELSE FindAllFrom(pattern.items, pattern.group, s, s, 1)

(***************************************************************************)
(* expand_query                                                            *)
(***************************************************************************)
well_pattern ==
    [items |-> << Cls(UpperC, 4, 4), Cls(DigitC, 3, 3), Cls(UpperC, 0, 1),
                  Cls({":"}, 1, 1), Cls(UpperC, 1, 1), Cls(DigitC, 3, 4),
                  Cls(UpperC, 0, 1) >>,
     group |-> 0]

flowstation_keywords == << "flowstation", "fs", "flow station" >>

CANONICAL_FLOWSTATION == "flowStation"

MONTHS == << "January", "February", "March", "April", "May", "June", "July",
             "August", "September", "October", "November", "December" >>

date_patterns ==
    << [items |-> << Cls(DigitC, 4, 4), Cls({"-"}, 1, 1), Cls(DigitC, 2, 2),
                     Cls({"-"}, 1, 1), Cls(DigitC, 2, 2) >>,
        group |-> 0],
       [items |-> << Cls(DigitC, 1, 2), Cls({"/", "-"}, 1, 1), Cls(DigitC, 1, 2),
                     Cls({"/", "-"}, 1, 1), Cls(DigitC, 2, 4) >>,
        group |-> 0],
       [items |-> << Alt(MONTHS), Cls(SpaceC, 1, Unbounded), Cls(DigitC, 1, 2),
                     Cls({","}, 0, 1), Cls(SpaceC, 1, Unbounded), Cls(DigitC, 4, 4) >>,
        group |-> 1] >>

\* WellQueries without the "production" query
WellQueriesWellOnly(wells) == [i \in 1..Len(wells) |-> "well " \o wells[i]]

\* the appends of the loop over wells: two queries per match, in match order
WellQueries(wells) ==
    [i \in 1..(2 * Len(wells)) |->
        IF i % 2 = 1 THEN "well " \o wells[(i + 1) \div 2]
                     ELSE "production " \o wells[i \div 2]]

RECURSIVE FlowstationQueries(_, _)
\* the appends of the loop over flowstation_keywords, from keyword k on
FlowstationQueries(query, k) ==
    IF k > Len(flowstation_keywords) THEN <<>>
    ELSE (IF Contains(lower(query), flowstation_keywords[k])
          THEN << replace(query, flowstation_keywords[k], CANONICAL_FLOWSTATION) >>
          ELSE <<>>)
         \o FlowstationQueries(query, k + 1)

RECURSIVE DateQueries(_, _)
\* the appends of the loop over date_patterns, from pattern k on
DateQueries(query, k) ==
    IF k > Len(date_patterns) THEN <<>>
    ELSE LET dates == findall(date_patterns[k], query, TRUE)
         IN  (IF dates # <<>> THEN << "date " \o dates[1] \o " production" >> ELSE <<>>)
             \o DateQueries(query, k + 1)

\* the list `queries` as it is when expand_query reaches its return
expand_query_list(query) ==
    << query >>
    \o WellQueries(findall(well_pattern, upper(query), FALSE))
    \o FlowstationQueries(query, 1)
    \o DateQueries(query, 1)

Range(seq) == {seq[i] : i \in 1..Len(seq)}

RECURSIVE Orderings(_)
\* list(S) of a set S of strings: the elements once each, in an order the
\* program does not determine (string hashing is randomised per process)
Orderings(S) ==
    IF S = {} THEN {<<>>}
    ELSE UNION {{<<x>> \o t : t \in Orderings(S \ {x})} : x \in S}

\* the lists expand_query(query) can return
expand_query(query) == Orderings(Range(expand_query_list(query)))

(***************************************************************************)
(* limit_context                                                           *)
(***************************************************************************)
TOP_K == 30
MAX_TOKENS == 4000

\* The chunk texts of the model and len(enc.encode(chunk)) of each: the
\* tokenizer is an external collaborator, used only for the length.
ChunkTexts == {"A", "B", "C", "D", ""}

NumTokens(chunk) ==
    CASE chunk = "A" -> 1000
      [] chunk = "B" -> 1500
      [] chunk = "C" -> 2500
      [] chunk = "D" -> 4001
      [] chunk = ""  -> 0

RECURSIVE LimitLoop(_, _, _, _, _)

RECURSIVE LimitLoopOverrun(_, _, _, _, _)
\* LimitLoop with the budget tested after the chunk was added
LimitLoopOverrun(chunks, max_tokens, i, context, token_count) ==
    IF i > Len(chunks) \/ token_count > max_tokens
    THEN [context |-> context, token_count |-> token_count]
    ELSE LimitLoopOverrun(chunks, max_tokens, i + 1, Append(context, chunks[i]),
                          token_count + NumTokens(chunks[i]))

RECURSIVE LimitLoopSkip(_, _, _, _, _)
\* LimitLoop with `continue` in the place of `break`
LimitLoopSkip(chunks, max_tokens, i, context, token_count) ==
    IF i > Len(chunks) THEN [context |-> context, token_count |-> token_count]
    ELSE IF token_count + NumTokens(chunks[i]) > max_tokens
         THEN LimitLoopSkip(chunks, max_tokens, i + 1, context, token_count)
         ELSE LimitLoopSkip(chunks, max_tokens, i + 1, Append(context, chunks[i]),
                            token_count + NumTokens(chunks[i]))

\* the for loop of limit_context from chunk i on, (context, token_count)
\* being what the earlier iterations built
LimitLoop(chunks, max_tokens, i, context, token_count) ==
    IF i > Len(chunks) THEN [context |-> context, token_count |-> token_count]
    ELSE IF token_count + NumTokens(chunks[i]) > max_tokens
         THEN [context |-> context, token_count |-> token_count]
         ELSE LimitLoop(chunks, max_tokens, i + 1, Append(context, chunks[i]),
                        token_count + NumTokens(chunks[i]))

limit_context(chunks, max_tokens) == LimitLoop(chunks, max_tokens, 1, <<>>, 0)

(***************************************************************************)
(* The stages of query_chatbot between the calls to its collaborators      *)
(***************************************************************************)
\* results["documents"] and results["documents"][0]
HasDocuments(results) ==
    results.documents # <<>> /\ results.documents[1] # <<>>

\* the test of the retrieved chunks left out
NothingRetrievedNever(chunks) == FALSE

\* not all_chunks
NothingRetrieved(chunks) == chunks = <<>>

RECURSIVE DedupeLoop(_, _, _, _, _, _)

RECURSIVE DedupeLoopLastWins(_, _, _, _, _, _)
\* DedupeLoop keeping the metadata of the latest occurrence of a text
DedupeLoopLastWins(chunks, metas, i, seen, unique_c, unique_m) ==
    IF i > Len(chunks) THEN [chunks |-> unique_c, metadatas |-> unique_m]
    ELSE IF chunks[i] \in seen
         THEN DedupeLoopLastWins(chunks, metas, i + 1, seen, unique_c,
                  [k \in 1..Len(unique_m) |->
                      IF unique_c[k] = chunks[i] THEN metas[i] ELSE unique_m[k]])
         ELSE DedupeLoopLastWins(chunks, metas, i + 1, seen \cup {chunks[i]},
                                 Append(unique_c, chunks[i]), Append(unique_m, metas[i]))

\* the loop that removes duplicates, from pair i of zip(all_chunks,
\* all_metadatas) on
DedupeLoop(chunks, metas, i, seen, unique_c, unique_m) ==
    IF i > Len(chunks) \/ i > Len(metas)
    THEN [chunks |-> unique_c, metadatas |-> unique_m]
    ELSE IF chunks[i] \in seen
         THEN DedupeLoop(chunks, metas, i + 1, seen, unique_c, unique_m)
         ELSE DedupeLoop(chunks, metas, i + 1, seen \cup {chunks[i]},
                         Append(unique_c, chunks[i]), Append(unique_m, metas[i]))

Dedupe(chunks, metas) == DedupeLoop(chunks, metas, 1, {}, <<>>, <<>>)

RECURSIVE InsertByScore(_, _)

\* InsertByScore putting an item before the items of equal score
InsertByScoreBeforeTies(sorted, item) ==
    IF sorted = <<>> THEN << item >>
    ELSE IF Head(sorted).score > item.score
         THEN << Head(sorted) >> \o InsertByScore(Tail(sorted), item)
         ELSE << item >> \o sorted

\* item placed after every item whose score is at least its own
InsertByScore(sorted, item) ==
    IF sorted = <<>> THEN << item >>
    ELSE IF Head(sorted).score >= item.score
         THEN << Head(sorted) >> \o InsertByScore(Tail(sorted), item)
         ELSE << item >> \o sorted

RECURSIVE SortedByScore(_, _)
\* sorted(items, key=score, reverse=True): descending, and stable (items
\* of equal score keep their order)
SortedByScore(items, n) ==
    IF n = 0 THEN <<>> ELSE InsertByScore(SortedByScore(items, n - 1), items[n])

Min(a, b) == IF a <= b THEN a ELSE b

\* zip(unique_chunks, unique_metadatas, scores)
Zip3(chunks, metas, scores) ==
    [i \in 1..Min(Len(chunks), Min(Len(metas), Len(scores))) |->
        [chunk |-> chunks[i], meta |-> metas[i], score |-> scores[i]]]

Rerank(chunks, metas, scores) ==
    LET zipped == Zip3(chunks, metas, scores) IN SortedByScore(zipped, Len(zipped))

\* dict.get(key): whether the key is there, and its value
Get(meta, key) ==
    IF key \in DOMAIN meta THEN [present |-> TRUE, value |-> meta[key]]
    ELSE [present |-> FALSE, value |-> ""]

\* a or b, of two results of dict.get: a unless it is None or empty
Or(a, b) == IF a.present /\ a.value # "" THEN a ELSE b

\* the text an f-string gives for a result of dict.get
Format(x) == IF x.present THEN x.value ELSE "None"

\* MetaSummary with the collection left out when its key is absent
MetaSummaryOmitAbsent(meta) ==
    (IF "collection" \in DOMAIN meta THEN "[Collection: " \o meta["collection"] \o "]" ELSE "")
    \o (IF "asset" \in DOMAIN meta THEN " [Asset: " \o meta["asset"] \o "]" ELSE "")
    \o (IF "flowStation" \in DOMAIN meta \/ "flowstation" \in DOMAIN meta
        THEN " [Flowstation: " \o Format(Or(Get(meta, "flowStation"), Get(meta, "flowstation"))) \o "]"
        ELSE "")
    \o (IF "date" \in DOMAIN meta \/ "productionDate" \in DOMAIN meta
        THEN " [Date: " \o Format(Or(Get(meta, "date"), Get(meta, "productionDate"))) \o "]"
        ELSE "")

\* meta_summary when the loop body reaches context_parts.append
MetaSummary(meta) ==
    ("[Collection: "
        \o (IF "collection" \in DOMAIN meta THEN meta["collection"] ELSE "Unknown") \o "]")
    \o (IF "asset" \in DOMAIN meta THEN " [Asset: " \o meta["asset"] \o "]" ELSE "")
    \o (IF "flowStation" \in DOMAIN meta \/ "flowstation" \in DOMAIN meta
        THEN " [Flowstation: " \o Format(Or(Get(meta, "flowStation"), Get(meta, "flowstation"))) \o "]"
        ELSE "")
    \o (IF "date" \in DOMAIN meta \/ "productionDate" \in DOMAIN meta
        THEN " [Date: " \o Format(Or(Get(meta, "date"), Get(meta, "productionDate"))) \o "]"
        ELSE "")

\* ContextParts with the metadatas taken from the end of the list
ContextPartsFromEnd(limited, metas) ==
    [i \in 1..Min(Len(limited), Len(metas)) |->
        MetaSummary(metas[Len(metas) + 1 - i]) \o "\n" \o limited[i]]

\* zip(limited_chunks, reranked_metadatas[:len(limited_chunks)]), each
\* pair as summary, newline, chunk
ContextParts(limited, metas) ==
    [i \in 1..Min(Len(limited), Len(metas)) |-> MetaSummary(metas[i]) \o "\n" \o limited[i]]

CONTEXT_SEPARATOR == "\n\n---\n\n"

RECURSIVE Join(_, _)
\* sep.join(parts)
Join(sep, parts) ==
    IF parts = <<>> THEN ""
    ELSE IF Len(parts) = 1 THEN parts[1]
    ELSE parts[1] \o sep \o Join(sep, Tail(parts))

\* the instruction template, its eight instructions left out
PROMPT_HEAD == "You are analyzing petroleum engineering production data from a database.\n\n**CONTEXT DATA:**\n"
PROMPT_QUESTION == "\n\n**USER QUESTION:**\n"
PROMPT_TAIL == "\n\n**YOUR ANSWER:**"

Prompt(context_text, question) ==
    PROMPT_HEAD \o context_text \o PROMPT_QUESTION \o question \o PROMPT_TAIL

NO_DATA_MESSAGE == "(x) No relevant information found in the database for your query."
WARNING_MARKER == "(!)"
LLM_ERROR_PREFIX == "(!) Error generating response: "
HANDLER_ERROR_PREFIX == "(!) Error processing query: "

Return(value) == [kind |-> "return", value |-> value]
Raise(message) == [kind |-> "raise", value |-> message]

\* groq_llm_inference without its try/except
groq_llm_inference_uncaught(completion) ==
    IF completion.ok THEN Return(completion.detail) ELSE Raise(completion.detail)

\* groq_llm_inference, given what the call to the LLM backend did: ok and
\* the completion text, or not ok and str(e)
groq_llm_inference(completion) ==
    IF completion.ok THEN Return(completion.detail)
    ELSE Return(LLM_ERROR_PREFIX \o completion.detail)

\* process_query handing the exception on
process_query_uncaught(outcome) == outcome

\* process_query, given how query_chatbot ended
process_query(outcome) ==
    IF outcome.kind = "return" THEN Return(outcome.value)
    ELSE Return(HANDLER_ERROR_PREFIX \o outcome.value)

(***************************************************************************)
(* State                                                                   *)
(***************************************************************************)
VARIABLES
    eq_query,       \* expand_query called on its own: the argument
    eq_done,        \* ... whether it has returned
    eq_result,      \* ... the list it returned
    lc_chunks,      \* limit_context called on its own: the chunks
    lc_max_tokens,  \* ... max_tokens
    lc_done,        \* ... whether it has returned
    lc_result,      \* ... (context, token_count)
    pc,             \* where the turn process_query handles is
    user_question,
    expanded_queries,
    consumed,       \* how many of expanded_queries[:3] the loop has done
    all_chunks,
    all_metadatas,
    unique_chunks,
    unique_metadatas,
    scores,         \* what reranker.predict returned
    reranked_with_scores,
    limited_chunks,
    token_count,
    context_parts,  \* the annotated chunks of the prompt's context
    prompt,
    calls,          \* the calls made to the collaborators in this turn
    outcome,        \* how query_chatbot ended: returned a value or raised
    response,       \* what process_query returned
    db_pc,          \* where get_vector_db is
    db_env,         \* the environment variables get_vector_db reads
    db_tries,       \* the init_chroma_* calls of this call of get_vector_db
    db_result,      \* how get_vector_db ended
    db_cache,       \* what st.cache_resource keeps of get_vector_db
    app_pc,         \* where the script run of main is
    app_status,     \* components["status"]
    app_event,      \* the widget whose event started the latest script run
    messages,       \* st.session_state.messages
    example_query,  \* st.session_state.example_query
    examples_shown, \* whether the last run rendered the example buttons
    user_input      \* the question main is processing

expandVars == << eq_query, eq_done, eq_result >>
budgetVars == << lc_chunks, lc_max_tokens, lc_done, lc_result >>
dbVars == << db_pc, db_env, db_tries, db_result, db_cache >>
appVars == << app_pc, app_status, app_event, messages, example_query, examples_shown, user_input >>

ExpandIdle == eq_query = "" /\ eq_done = FALSE /\ eq_result = <<>>

BudgetIdle ==
    /\ lc_chunks = <<>>
    /\ lc_max_tokens = 0
    /\ lc_done = FALSE
    /\ lc_result = [context |-> <<>>, token_count |-> 0]

turnVars ==
    << pc, user_question, expanded_queries, consumed, all_chunks, all_metadatas,
       unique_chunks, unique_metadatas, scores, reranked_with_scores, limited_chunks,
       token_count, context_parts,
       prompt, calls, outcome, response >>

Nothing == [kind |-> "none", value |-> ""]

TurnIdle ==
    /\ pc = "idle"
    /\ user_question = ""
    /\ expanded_queries = <<>>
    /\ consumed = 0
    /\ all_chunks = <<>>
    /\ all_metadatas = <<>>
    /\ unique_chunks = <<>>
    /\ unique_metadatas = <<>>
    /\ scores = <<>>
    /\ reranked_with_scores = <<>>
    /\ limited_chunks = <<>>
    /\ token_count = 0
    /\ context_parts = <<>>
    /\ prompt = ""
    /\ calls = <<>>
    /\ outcome = Nothing
    /\ response = Nothing

(***************************************************************************)
(* database.py: the three ways to open the collection                      *)
(***************************************************************************)
COLLECTION_NAME == "rada_chatbot_data"

\* a collection as its client made it
Collection(client, where) == [client |-> client, where |-> where, name |-> COLLECTION_NAME]

\* Python's None where a collection is expected
None_ == [client |-> "None", where |-> "", name |-> ""]

\* if collection: an object that defines neither __bool__ nor __len__ is true
Truthy(collection) == collection # None_

\* what can happen inside an init_chroma_* function
HOW_CLOUD == {"ok", "no_folder", "client_raises", "collection_raises"}
HOW_CLIENT == {"ok", "client_raises", "collection_raises"}

CLOUD_PATH == "<module>/chroma_db"
LOCAL_PATH == "./chroma_db"

\* init_chroma_cloud when the folder is missing or a constructor raises:
\* try / except Exception, return None
init_chroma_cloud(how) ==
    IF how = "ok" THEN Return(Collection("PersistentClient", CLOUD_PATH)) ELSE Return(None_)

\* init_chroma_local without its try / except
init_chroma_local_uncaught(path, how) ==
    IF how = "ok" THEN Return(Collection("PersistentClient", path))
    ELSE Raise("Local ChromaDB failed")

init_chroma_local(path, how) ==
    IF how = "ok" THEN Return(Collection("PersistentClient", path)) ELSE Return(None_)

RECURSIVE Digits(_)
\* the decimal text of a natural number
Digits(n) == IF n < 10 THEN Char(DIGITS, n + 1) ELSE Digits(n \div 10) \o Char(DIGITS, (n % 10) + 1)

init_chroma_docker(host, port, how) ==
    IF how = "ok" THEN Return(Collection("HttpClient", host \o ":" \o Digits(port)))
    ELSE Return(None_)

\* os.getenv(name, default)
getenv(env, name, default) == IF env[name].set THEN env[name].value ELSE default

RECURSIVE StripLeft(_)
StripLeft(s) == IF s # "" /\ Char(s, 1) = " " THEN StripLeft(Tail(s)) ELSE s

RECURSIVE StripRight(_)
StripRight(s) ==
    IF s # "" /\ Char(s, Len(s)) = " " THEN StripRight(SubSeq(s, 1, Len(s) - 1)) ELSE s

\* the text without its sign and the spaces around it
Unsigned(s) ==
    LET t == StripLeft(StripRight(s))
    IN  IF t # "" /\ Char(t, 1) \in {"+", "-"} THEN Tail(t) ELSE t

\* whether int(s) returns: digits, single underscores between them, an
\* optional sign, spaces around
IsIntText(s) ==
    LET u == Unsigned(s)
    IN  /\ u # ""
        /\ Char(u, 1) \in DigitC /\ Char(u, Len(u)) \in DigitC
        /\ \A i \in 1..Len(u) : Char(u, i) \in DigitC \cup {"_"}
        /\ \A i \in 1..(Len(u) - 1) : ~(Char(u, i) = "_" /\ Char(u, i + 1) = "_")

DigitValue(c) == (CHOOSE i \in 1..10 : Char(DIGITS, i) = c) - 1

RECURSIVE IntOf(_, _)
IntOf(u, acc) ==
    IF u = "" THEN acc
    ELSE IF Char(u, 1) = "_" THEN IntOf(Tail(u), acc)
    ELSE IntOf(Tail(u), 10 * acc + DigitValue(Char(u, 1)))

\* int(s) of a text int accepts
int(s) ==
    LET t == StripLeft(StripRight(s))
        n == IntOf(Unsigned(s), 0)
    IN  IF Char(t, 1) = "-" THEN 0 - n ELSE n

\* how get_vector_db ends: return collection, label or raise
DbNone == [kind |-> "none", type |-> "", collection |-> None_, label |-> "", message |-> ""]
DbReturn(collection, label) ==
    [kind |-> "return", type |-> "", collection |-> collection, label |-> label, message |-> ""]
DbRaise(type, message) ==
    [kind |-> "raise", type |-> type, collection |-> None_, label |-> "", message |-> message]

Unset == [set |-> FALSE, value |-> ""]
Setenv(value) == [set |-> TRUE, value |-> value]

DbIdle ==
    /\ db_pc = "idle"
    /\ db_env = [CHROMA_DOCKER_HOST |-> Unset, CHROMA_DOCKER_PORT |-> Unset]
    /\ db_tries = <<>>
    /\ db_result = DbNone
    /\ db_cache = DbNone

(***************************************************************************)
(* main_app.py: the session state before the first script run              *)
(***************************************************************************)
NoQuery == [set |-> FALSE, value |-> ""]

AppIdle ==
    /\ app_pc = "start"
    /\ app_status = ""
    /\ app_event = "none"
    /\ messages = <<>>
    /\ example_query = NoQuery
    /\ examples_shown = FALSE
    /\ user_input = ""

vars == << expandVars, budgetVars, turnVars, dbVars, appVars >>

(***************************************************************************)
(* expand_query on its own: every question made of at most MaxFragments    *)
(* of the fragments.                                                       *)
(***************************************************************************)
MaxFragments == 2

Fragments ==
    { " ", "abcd123:e456", "WXYZ789B:K0123 ", "fs", "FS", "flow station",
      "Flowstation ", "2025-10-01", "1/2/25", "May 3, 2025" }

RECURSIVE QuestionsOf(_)
QuestionsOf(n) ==
    IF n = 0 THEN {""}
    ELSE LET shorter == QuestionsOf(n - 1)
         IN  shorter \cup {q \o f : q \in shorter, f \in Fragments}

Questions == QuestionsOf(MaxFragments)

InitExpand ==
    /\ eq_query \in Questions
    /\ eq_done = FALSE
    /\ eq_result = <<>>
    /\ BudgetIdle
    /\ TurnIdle
    /\ DbIdle
    /\ AppIdle

ExpandQueryCall ==
    /\ ~eq_done
    /\ eq_result' \in expand_query(eq_query)
    /\ eq_done' = TRUE
    /\ UNCHANGED << eq_query, budgetVars, turnVars, dbVars, appVars >>

NextExpand == ExpandQueryCall

SpecExpand == InitExpand /\ [][NextExpand]_vars

(***************************************************************************)
(* limit_context on its own: every list of at most MaxChunks chunks and    *)
(* some budgets.                                                           *)
(***************************************************************************)
MaxChunks == 5

Budgets == {0, 999, 1000, 3500, MAX_TOKENS}

RECURSIVE ListsOf(_, _)
ListsOf(S, n) ==
    IF n = 0 THEN {<<>>}
    ELSE LET shorter == ListsOf(S, n - 1)
         IN  shorter \cup {Append(l, x) : l \in shorter, x \in S}

InitBudget ==
    /\ lc_chunks \in ListsOf(ChunkTexts, MaxChunks)
    /\ lc_max_tokens \in Budgets
    /\ lc_done = FALSE
    /\ lc_result = [context |-> <<>>, token_count |-> 0]
    /\ ExpandIdle
    /\ TurnIdle
    /\ DbIdle
    /\ AppIdle

LimitContextCall ==
    /\ ~lc_done
    /\ lc_result' = limit_context(lc_chunks, lc_max_tokens)
    /\ lc_done' = TRUE
    /\ UNCHANGED << lc_chunks, lc_max_tokens, expandVars, turnVars, dbVars, appVars >>

NextBudget == LimitContextCall

SpecBudget == InitBudget /\ [][NextBudget]_vars

(***************************************************************************)
(* A turn: process_query calls query_chatbot, which calls the embedding    *)
(* model, the vector index, the reranker and the LLM backend.  Each call   *)
(* to a collaborator is a step: it returns something or it raises.         *)
(***************************************************************************)
TurnQuestions == { "oil", "fs", "abcd123:e456", "abcd123:e456 1/2/25" }

META_FULL == [collection |-> "prod", asset |-> "OML1", flowStation |-> "Awoba", date |-> "2025-10-01"]
META_ALIAS == [flowstation |-> "Ekulama", productionDate |-> "2025-10-02"]
\* the primary keys with empty values, one alias present
META_EMPTY == [collection |-> "prod", flowStation |-> "", flowstation |-> "Ekulama", date |-> ""]
META_BOTH ==
    [collection |-> "prod", flowStation |-> "Awoba", flowstation |-> "Ekulama",
     date |-> "2025-10-01", productionDate |-> "2025-10-02"]

\* what collection.query can return for one embedding: the documents and
\* the metadatas, parallel, in the index's order
IndexResults ==
    { [documents |-> << <<>> >>, metadatas |-> << <<>> >>],
      [documents |-> << << "A" >> >>, metadatas |-> << << META_FULL >> >>],
      [documents |-> << << "A", "B" >> >>, metadatas |-> << << META_ALIAS, META_FULL >> >>],
      [documents |-> << << "C", "B" >> >>, metadatas |-> << << META_BOTH, META_EMPTY >> >>] }

\* the relevance scores, in tenths
ScoreValues == {2, 5, 9}

Completions == { "Awoba produced 1200.50 barrels." }

ErrorMessages == { "connection refused" }

\* what a call that is not an answered collection.query brings back
NoResults == [documents |-> <<>>, metadatas |-> <<>>]

\* a call to a collaborator: n is n_results (collection.query) or the
\* number of pairs (reranker.predict), got is what collection.query
\* returned, detail is the text encoded, the completion or the error
Call(op, ok, n, got, detail) ==
    [op |-> op, ok |-> ok, n |-> n, got |-> got, detail |-> detail]

\* expanded_queries[:3]
ConsumedQueries == SubSeq(expanded_queries, 1, Min(3, Len(expanded_queries)))

\* process_query calls query_chatbot, which expands the question
StartTurn(question) ==
    /\ pc = "idle"
    /\ pc' = "retrieving"
    /\ user_question' = question
    /\ expanded_queries' \in expand_query(question)
    /\ UNCHANGED << consumed, all_chunks, all_metadatas, unique_chunks, unique_metadatas,
                    scores, reranked_with_scores, limited_chunks, token_count, context_parts,
       prompt, calls,
                    outcome, response >>
    /\ UNCHANGED << expandVars, budgetVars, dbVars, appVars >>

InLoop == pc = "retrieving" /\ consumed < Len(ConsumedQueries)

UnchangedAfterRetrieval ==
    UNCHANGED << user_question, expanded_queries, unique_chunks, unique_metadatas,
                 scores, reranked_with_scores, limited_chunks, token_count, context_parts,
       prompt, response,
                 expandVars, budgetVars, dbVars, appVars >>

\* RetrieveOne with the results put in front of the earlier ones
RetrieveOneInFront(results) ==
    /\ InLoop
    /\ LET query == ConsumedQueries[consumed + 1]
           n_results == TOP_K \div Len(ConsumedQueries)
       IN  calls' = calls \o << Call("encode", TRUE, 0, NoResults, query),
                                Call("query", TRUE, n_results, results, "") >>
    /\ IF HasDocuments(results)
       THEN /\ all_chunks' = results.documents[1] \o all_chunks
            /\ all_metadatas' = results.metadatas[1] \o all_metadatas
       ELSE UNCHANGED << all_chunks, all_metadatas >>
    /\ consumed' = consumed + 1
    /\ UNCHANGED << pc, outcome >>
    /\ UnchangedAfterRetrieval

\* one iteration of the loop over expanded_queries[:3]: the query is
\* embedded, the index answers, its documents and metadatas are appended
RetrieveOne(results) ==
    /\ InLoop
    /\ LET query == ConsumedQueries[consumed + 1]
           n_results == TOP_K \div Len(ConsumedQueries)
       IN  calls' = calls \o << Call("encode", TRUE, 0, NoResults, query),
                                Call("query", TRUE, n_results, results, "") >>
    /\ IF HasDocuments(results)
       THEN /\ all_chunks' = all_chunks \o results.documents[1]
            /\ all_metadatas' = all_metadatas \o results.metadatas[1]
       ELSE UNCHANGED << all_chunks, all_metadatas >>
    /\ consumed' = consumed + 1
    /\ UNCHANGED << pc, outcome >>
    /\ UnchangedAfterRetrieval

\* embedding_model.encode raises: the exception leaves query_chatbot
EncodeRaises(message) ==
    /\ InLoop
    /\ calls' = Append(calls, Call("encode", FALSE, 0, NoResults, message))
    /\ outcome' = Raise(message)
    /\ pc' = "raised"
    /\ UNCHANGED << consumed, all_chunks, all_metadatas >>
    /\ UnchangedAfterRetrieval

\* QueryRaises with the exception caught in the loop and the query skipped
QueryRaisesSkipped(message) ==
    /\ InLoop
    /\ calls' = calls \o << Call("encode", TRUE, 0, NoResults, ConsumedQueries[consumed + 1]),
                            Call("query", FALSE, TOP_K \div Len(ConsumedQueries), NoResults, message) >>
    /\ consumed' = consumed + 1
    /\ UNCHANGED << pc, outcome, all_chunks, all_metadatas >>
    /\ UnchangedAfterRetrieval

\* collection.query raises: the exception leaves query_chatbot
QueryRaises(message) ==
    /\ InLoop
    /\ calls' = calls \o << Call("encode", TRUE, 0, NoResults, ConsumedQueries[consumed + 1]),
                            Call("query", FALSE, TOP_K \div Len(ConsumedQueries), NoResults, message) >>
    /\ outcome' = Raise(message)
    /\ pc' = "raised"
    /\ UNCHANGED << consumed, all_chunks, all_metadatas >>
    /\ UnchangedAfterRetrieval

LoopDone == pc = "retrieving" /\ consumed = Len(ConsumedQueries)

\* the loop is over and nothing was retrieved: the fixed message
NoCandidates ==
    /\ LoopDone
    /\ NothingRetrieved(all_chunks)
    /\ outcome' = Return(NO_DATA_MESSAGE)
    /\ pc' = "returned"
    /\ UNCHANGED << consumed, all_chunks, all_metadatas, calls >>
    /\ UnchangedAfterRetrieval

\* the loop is over: duplicates are removed and the pairs are built
RemoveDuplicates ==
    /\ LoopDone
    /\ ~NothingRetrieved(all_chunks)
    /\ LET unique == Dedupe(all_chunks, all_metadatas)
       IN  /\ unique_chunks' = unique.chunks
           /\ unique_metadatas' = unique.metadatas
    /\ pc' = "reranking"
    /\ UNCHANGED << user_question, expanded_queries, consumed, all_chunks, all_metadatas,
                    scores, reranked_with_scores, limited_chunks, token_count, context_parts,
       prompt, calls,
                    outcome, response, expandVars, budgetVars, dbVars, appVars >>

\* reranker.predict returns the scores: the chunks are sorted, the
\* context is limited and the prompt is built
PredictReturns(predicted) ==
    /\ pc = "reranking"
    /\ Len(predicted) = Len(unique_chunks)
    /\ calls' = Append(calls, Call("predict", TRUE, Len(unique_chunks), NoResults, ""))
    /\ scores' = predicted
    /\ LET reranked == Rerank(unique_chunks, unique_metadatas, predicted)
           reranked_chunks == [i \in 1..Len(reranked) |-> reranked[i].chunk]
           reranked_metadatas == [i \in 1..Len(reranked) |-> reranked[i].meta]
           limited == limit_context(reranked_chunks, MAX_TOKENS)
           parts ==
               ContextParts(limited.context, SubSeq(reranked_metadatas, 1, Len(limited.context)))
       IN  /\ reranked_with_scores' = reranked
           /\ limited_chunks' = limited.context
           /\ token_count' = limited.token_count
           /\ context_parts' = parts
           /\ prompt' = Prompt(Join(CONTEXT_SEPARATOR, parts), user_question)
    /\ pc' = "synthesizing"
    /\ UNCHANGED << user_question, expanded_queries, consumed, all_chunks, all_metadatas,
                    unique_chunks, unique_metadatas, outcome, response, expandVars, budgetVars, dbVars, appVars >>

\* PredictRaises with the failed call made once more
PredictRaisesRetried(message) ==
    /\ pc = "reranking"
    /\ calls' = Append(calls, Call("predict", FALSE, Len(unique_chunks), NoResults, message))
    /\ IF \E i \in 1..Len(calls) : calls[i].op = "predict"
       THEN outcome' = Raise(message) /\ pc' = "raised"
       ELSE UNCHANGED << pc, outcome >>
    /\ UNCHANGED << user_question, expanded_queries, consumed, all_chunks, all_metadatas,
                    unique_chunks, unique_metadatas, scores, reranked_with_scores,
                    limited_chunks, token_count, context_parts,
                    prompt, response, expandVars, budgetVars, dbVars, appVars >>

\* reranker.predict raises: the exception leaves query_chatbot
PredictRaises(message) ==
    /\ pc = "reranking"
    /\ calls' = Append(calls, Call("predict", FALSE, Len(unique_chunks), NoResults, message))
    /\ outcome' = Raise(message)
    /\ pc' = "raised"
    /\ UNCHANGED << user_question, expanded_queries, consumed, all_chunks, all_metadatas,
                    unique_chunks, unique_metadatas, scores, reranked_with_scores,
                    limited_chunks, token_count, context_parts,
       prompt, response, expandVars, budgetVars, dbVars, appVars >>

\* groq_llm_inference: the call to the LLM backend returns a completion or raises
Synthesize(completion) ==
    /\ pc = "synthesizing"
    /\ calls' = Append(calls, Call("llm", completion.ok, 0, NoResults, completion.detail))
    /\ outcome' = groq_llm_inference(completion)
    /\ pc' = IF outcome'.kind = "return" THEN "returned" ELSE "raised"
    /\ UNCHANGED << user_question, expanded_queries, consumed, all_chunks, all_metadatas,
                    unique_chunks, unique_metadatas, scores, reranked_with_scores,
                    limited_chunks, token_count, context_parts,
       prompt, response, expandVars, budgetVars, dbVars, appVars >>

\* query_chatbot has returned or raised: process_query returns
FinishTurn ==
    /\ pc \in {"returned", "raised"}
    /\ response' = process_query(outcome)
    /\ pc' = IF response'.kind = "return" THEN "done" ELSE "crashed"
    /\ UNCHANGED << user_question, expanded_queries, consumed, all_chunks, all_metadatas,
                    unique_chunks, unique_metadatas, scores, reranked_with_scores,
                    limited_chunks, token_count, context_parts,
       prompt, calls, outcome, expandVars, budgetVars, dbVars, appVars >>

\* the next question: nothing of a turn is kept
NextTurn ==
    /\ pc = "done"
    /\ pc' = "idle"
    /\ user_question' = ""
    /\ expanded_queries' = <<>>
    /\ consumed' = 0
    /\ all_chunks' = <<>>
    /\ all_metadatas' = <<>>
    /\ unique_chunks' = <<>>
    /\ unique_metadatas' = <<>>
    /\ scores' = <<>>
    /\ reranked_with_scores' = <<>>
    /\ limited_chunks' = <<>>
    /\ token_count' = 0
    /\ context_parts' = <<>>
    /\ prompt' = ""
    /\ calls' = <<>>
    /\ outcome' = Nothing
    /\ response' = Nothing
    /\ UNCHANGED << expandVars, budgetVars, dbVars, appVars >>

Init == ExpandIdle /\ BudgetIdle /\ TurnIdle /\ DbIdle /\ AppIdle

RECURSIVE ScoreLists(_)
ScoreLists(n) ==
    IF n = 0 THEN {<<>>}
    ELSE {Append(l, x) : l \in ScoreLists(n - 1), x \in ScoreValues}

Next ==
    \/ \E question \in TurnQuestions : StartTurn(question)
    \/ \E results \in IndexResults : RetrieveOne(results)
    \/ \E message \in ErrorMessages : EncodeRaises(message)
    \/ \E message \in ErrorMessages : QueryRaises(message)
    \/ NoCandidates
    \/ RemoveDuplicates
    \/ \E predicted \in ScoreLists(Len(unique_chunks)) : PredictReturns(predicted)
    \/ \E message \in ErrorMessages : PredictRaises(message)
    \/ \E text \in Completions : Synthesize([ok |-> TRUE, detail |-> text])
    \/ \E message \in ErrorMessages : Synthesize([ok |-> FALSE, detail |-> message])
    \/ FinishTurn
    \/ NextTurn

Spec == Init /\ [][Next]_vars

(***************************************************************************)
(* get_vector_db on its own, under st.cache_resource: every environment    *)
(* of the two variables it reads, every outcome of each init_chroma_*.     *)
(***************************************************************************)
DockerHosts == { Unset, Setenv("chroma") }
DockerPorts == { Unset, Setenv("8000"), Setenv(" 9_000 "), Setenv("80a0"), Setenv("") }

RUNTIME_ERROR_MESSAGE == "(x) Failed to initialize ChromaDB from any source!"

Try(backend, how, result) == [backend |-> backend, how |-> how, result |-> result]

InitDb ==
    /\ db_pc = "idle"
    /\ db_env \in [CHROMA_DOCKER_HOST : DockerHosts, CHROMA_DOCKER_PORT : DockerPorts]
    /\ db_tries = <<>>
    /\ db_result = DbNone
    /\ db_cache = DbNone
    /\ ExpandIdle /\ BudgetIdle /\ TurnIdle /\ AppIdle

DbUnchanged == UNCHANGED << db_env, expandVars, budgetVars, turnVars, appVars >>

\* get_vector_db is called and nothing is cached: its body starts
GetVectorDb ==
    /\ db_pc = "idle"
    /\ db_cache.kind # "return"
    /\ db_pc' = "cloud"
    /\ UNCHANGED << db_tries, db_result, db_cache >>
    /\ DbUnchanged

\* get_vector_db is called after a call that returned: the cached pair
GetVectorDbCached ==
    /\ db_pc = "idle"
    /\ db_cache.kind = "return"
    /\ db_result' = db_cache
    /\ db_pc' = "returned"
    /\ UNCHANGED << db_tries, db_cache >>
    /\ DbUnchanged

\* what get_vector_db does with what an init_chroma_* call gave: an
\* exception leaves it, a collection is returned with its label and
\* cached, None takes it to the next try
AfterTry(try, label, next) ==
    /\ db_tries' = Append(db_tries, try)
    /\ IF try.result.kind = "raise"
       THEN /\ db_result' = DbRaise("Exception", try.result.value)
            /\ db_pc' = "raised"
            /\ UNCHANGED db_cache
       ELSE IF Truthy(try.result.value)
       THEN /\ db_result' = DbReturn(try.result.value, label)
            /\ db_cache' = DbReturn(try.result.value, label)
            /\ db_pc' = "returned"
       ELSE IF next = "raise"
       THEN /\ db_result' = DbRaise("RuntimeError", RUNTIME_ERROR_MESSAGE)
            /\ db_pc' = "raised"
            /\ UNCHANGED db_cache
       ELSE /\ db_pc' = next
            /\ UNCHANGED << db_result, db_cache >>
    /\ DbUnchanged

\* Try 1: collection = init_chroma_cloud()
TryCloud(how) ==
    /\ db_pc = "cloud"
    /\ AfterTry(Try("cloud", how, init_chroma_cloud(how)), "cloud", "local")

\* Try 2: collection = init_chroma_local()
TryLocal(how) ==
    /\ db_pc = "local"
    /\ AfterTry(Try("local", how, init_chroma_local(LOCAL_PATH, how)), "local", "docker")

\* Try 3 when CHROMA_DOCKER_PORT is not the text of an integer: int() raises
DockerPortInvalid ==
    /\ db_pc = "docker"
    /\ ~IsIntText(getenv(db_env, "CHROMA_DOCKER_PORT", "8000"))
    /\ db_result' = DbRaise("ValueError", "invalid literal for int() with base 10")
    /\ db_pc' = "raised"
    /\ UNCHANGED << db_tries, db_cache >>
    /\ DbUnchanged

\* Try 3: collection = init_chroma_docker(docker_host, docker_port), and
\* the RuntimeError when this one gives None too
TryDocker(how) ==
    /\ db_pc = "docker"
    /\ IsIntText(getenv(db_env, "CHROMA_DOCKER_PORT", "8000"))
    /\ LET docker_host == getenv(db_env, "CHROMA_DOCKER_HOST", "localhost")
           docker_port == int(getenv(db_env, "CHROMA_DOCKER_PORT", "8000"))
       IN  AfterTry(Try("docker", how, init_chroma_docker(docker_host, docker_port, how)),
                    "docker", "raise")

\* the caller has the result; get_vector_db can be called again
DbCallAgain ==
    /\ db_pc \in {"returned", "raised"}
    /\ db_pc' = "idle"
    /\ db_tries' = <<>>
    /\ db_result' = DbNone
    /\ UNCHANGED db_cache
    /\ DbUnchanged

NextDb ==
    \/ GetVectorDb
    \/ GetVectorDbCached
    \/ \E how \in HOW_CLOUD : TryCloud(how)
    \/ \E how \in HOW_CLIENT : TryLocal(how)
    \/ DockerPortInvalid
    \/ \E how \in HOW_CLIENT : TryDocker(how)
    \/ DbCallAgain

SpecDb == InitDb /\ [][NextDb]_vars

(***************************************************************************)
(* The chat app: script runs of main, one per widget event, each run to    *)
(* its end (st.rerun or the last line) before the next event is handled.   *)
(* Timestamps of the messages are left out.                                *)
(***************************************************************************)
MaxExchanges == 2

examples == << "How many wells are in Awoba flowstation?", "Compare Awoba and Ekulama 1" >>

TypedQuestions == { "oil", "fs" }

\* how query_chatbot can end
ChatbotOutcomes ==
    { Return("Awoba produced 1200.50 barrels."), Return(NO_DATA_MESSAGE),
      Return(LLM_ERROR_PREFIX \o "connection refused"), Raise("connection refused") }

Message(role, content) == [role |-> role, content |-> content]

AppOnly == UNCHANGED << expandVars, budgetVars, turnVars, dbVars >>

\* the first script run: initialize_app, then st.stop() on an error, else
\* the page with the example buttons
InitializeApp(status) ==
    /\ app_pc = "start"
    /\ app_status' = status
    /\ app_pc' = IF status = "error" THEN "stopped" ELSE "waiting"
    /\ examples_shown' = (status # "error")
    /\ UNCHANGED << app_event, messages, example_query, user_input >>
    /\ AppOnly

\* render_sidebar: the clear button was clicked; the rerun shows the
\* example buttons again
ClearChat ==
    /\ app_pc = "waiting"
    /\ app_event' = "clear"
    /\ messages' = <<>>
    /\ examples_shown' = TRUE
    /\ UNCHANGED << app_pc, app_status, example_query, user_input >>
    /\ AppOnly

\* an example button was clicked: the query is kept for the rerun
ClickExample(example) ==
    /\ app_pc = "waiting"
    /\ examples_shown
    /\ app_event' = "example"
    /\ example_query' = [set |-> TRUE, value |-> example]
    /\ app_pc' = "rerun"
    /\ UNCHANGED << app_status, messages, examples_shown, user_input >>
    /\ AppOnly

\* the rerun finds example_query: it is deleted and the user message added
HandleExample ==
    /\ app_pc = "rerun"
    /\ example_query.set
    /\ user_input' = example_query.value
    /\ example_query' = NoQuery
    /\ examples_shown' = (messages = <<>>)
    /\ messages' = Append(messages, Message("user", example_query.value))
    /\ app_pc' = "processing_example"
    /\ UNCHANGED << app_status, app_event >>
    /\ AppOnly

\* st.chat_input returned a question: the user message is added
TypeQuestion(question) ==
    /\ app_pc = "waiting"
    /\ Len(messages) < 2 * MaxExchanges
    /\ question # ""
    /\ app_event' = "input"
    /\ user_input' = question
    /\ examples_shown' = (messages = <<>>)
    /\ messages' = Append(messages, Message("user", question))
    /\ app_pc' = "processing_input"
    /\ UNCHANGED << app_status, example_query >>
    /\ AppOnly

\* RespondTo with an error string shown but not kept in the history
RespondToKeepsAnswersOnly(at, chatbot) ==
    /\ app_pc = at
    /\ LET reply == process_query(chatbot)
       IN  /\ messages' = IF reply.kind = "return" /\ ~StartsAt(reply.value, WARNING_MARKER, 1)
                          THEN Append(messages, Message("assistant", reply.value))
                          ELSE messages
           /\ examples_shown' = IF reply.kind = "return" THEN FALSE ELSE examples_shown
    /\ app_pc' = "waiting"
    /\ UNCHANGED << app_status, app_event, example_query, user_input >>
    /\ AppOnly

\* response = process_query(user_input, components), the assistant message
\* is added and st.rerun() shows the history; were process_query to raise,
\* the run would end there
RespondTo(at, chatbot) ==
    /\ app_pc = at
    /\ LET reply == process_query(chatbot)
       IN  /\ messages' = IF reply.kind = "return"
                          THEN Append(messages, Message("assistant", reply.value))
                          ELSE messages
           /\ examples_shown' = IF reply.kind = "return" THEN FALSE ELSE examples_shown
    /\ app_pc' = "waiting"
    /\ UNCHANGED << app_status, app_event, example_query, user_input >>
    /\ AppOnly

RespondToExample(chatbot) == RespondTo("processing_example", chatbot)

RespondToInput(chatbot) == RespondTo("processing_input", chatbot)

InitApp == ExpandIdle /\ BudgetIdle /\ TurnIdle /\ DbIdle /\ AppIdle

NextApp ==
    \/ \E status \in {"success", "error"} : InitializeApp(status)
    \/ ClearChat
    \/ \E i \in 1..Len(examples) : ClickExample(examples[i])
    \/ HandleExample
    \/ \E question \in TypedQuestions : TypeQuestion(question)
    \/ \E chatbot \in ChatbotOutcomes : RespondToExample(chatbot)
    \/ \E chatbot \in ChatbotOutcomes : RespondToInput(chatbot)

SpecApp == InitApp /\ [][NextApp]_vars

(***************************************************************************)
(* Claims about limit_context (SpecBudget)                                 *)
(***************************************************************************)
RECURSIVE TokenSum(_)
TokenSum(chunks) ==
    IF chunks = <<>> THEN 0 ELSE NumTokens(Head(chunks)) + TokenSum(Tail(chunks))

\* C1: the token count limit_context reports is the sum of the token costs
\* of the chunks it selected and is at most max_tokens; every selected
\* chunk is a chunk of the input, whole.
C1_BudgetRespected ==
    lc_done =>
        /\ lc_result.token_count = TokenSum(lc_result.context)
        /\ lc_result.token_count <= lc_max_tokens
        /\ \A i \in 1..Len(lc_result.context) : lc_result.context[i] \in Range(lc_chunks)

\* some chunks were selected, some were not, and budget is left over
C1_Witness ==
    /\ lc_done
    /\ Len(lc_result.context) >= 2
    /\ Len(lc_result.context) < Len(lc_chunks)
    /\ lc_result.token_count < lc_max_tokens

\* C2: the selection is the longest prefix of the input whose cumulative
\* token cost is at most max_tokens: the first chunk that does not fit
\* ends the selection, whatever comes after it.  Five chunks of 1000
\* tokens under a budget of 3500 give the first three (3000 tokens); a
\* first chunk above the budget gives the empty selection with count 0.
C2_GreedyPrefix ==
    lc_done =>
        LET n == Len(lc_result.context) IN
        /\ n <= Len(lc_chunks)
        /\ lc_result.context = SubSeq(lc_chunks, 1, n)
        /\ \A m \in 0..Len(lc_chunks) :
              TokenSum(SubSeq(lc_chunks, 1, m)) <= lc_max_tokens <=> m <= n
        /\ (lc_chunks = << "A", "A", "A", "A", "A" >> /\ lc_max_tokens = 3500)
              => (n = 3 /\ lc_result.token_count = 3000)
        /\ (lc_chunks # <<>> /\ NumTokens(lc_chunks[1]) > lc_max_tokens)
              => (n = 0 /\ lc_result.token_count = 0)

\* the selection stopped at a chunk that did not fit although a later,
\* smaller chunk would have fitted
C2_Witness ==
    /\ lc_done
    /\ LET n == Len(lc_result.context) IN
       /\ n >= 1
       /\ n + 1 < Len(lc_chunks)
       /\ \E j \in (n + 2)..Len(lc_chunks) :
             /\ NumTokens(lc_chunks[j]) > 0
             /\ lc_result.token_count + NumTokens(lc_chunks[j]) <= lc_max_tokens

(***************************************************************************)
(* Claims about expand_query (SpecExpand)                                  *)
(***************************************************************************)
\* C10: whenever a site keyword appears in the question in any letter
\* casing, the result contains a variant of the question in which an
\* occurrence of the keyword is replaced by the canonical spelling, the
\* text before it unchanged.
C10_CaseInsensitiveSite ==
    eq_done =>
        \A k \in 1..Len(flowstation_keywords) :
            LET kw == flowstation_keywords[k]
                lq == lower(eq_query)
            IN  Contains(lq, kw) =>
                    \E p \in 1..Len(eq_query) :
                        /\ StartsAt(lq, kw, p)
                        /\ \E r \in Range(eq_result) :
                              StartsAt(r, SubSeq(eq_query, 1, p - 1) \o CANONICAL_FLOWSTATION, 1)

(***************************************************************************)
(* What the claims about expand_query speak of, stated without the         *)
(* matcher: the shape of a well identifier and of the three date forms.    *)
(***************************************************************************)
AllIn(t, from, to, chars) == \A i \in from..to : Char(t, i) \in chars

LetterSet == UpperSet \cup LowerSet

\* 4 letters, 3 digits, an optional letter, a colon, 1 letter, 3 or 4
\* digits, an optional letter: a piece of the question that is an
\* identifier once the question is in upper case
IsWellId(t) ==
    \E a \in 0..1, d \in 3..4, b \in 0..1 :
        /\ Len(t) = 9 + a + d + b
        /\ AllIn(t, 1, 4, LetterSet)
        /\ AllIn(t, 5, 7, DigitC)
        /\ AllIn(t, 8, 7 + a, LetterSet)
        /\ Char(t, 8 + a) = ":"
        /\ Char(t, 9 + a) \in LetterSet
        /\ AllIn(t, 10 + a, 9 + a + d, DigitC)
        /\ AllIn(t, 10 + a + d, 9 + a + d + b, LetterSet)

WellIdLengths == 12..15

RECURSIVE WellIdsFrom(_, _)
\* the identifiers found in the uppercased q from position p on: the
\* leftmost one, the longest at its position, then those after its end
WellIdsFrom(q, p) ==
    IF p > Len(q) THEN {}
    ELSE LET lens == IF \/ p + 11 > Len(q)
                        \/ Char(q, p) \notin LetterSet
                        \/ ":" \notin {Char(q, p + 7), Char(q, p + 8)}
                     THEN {}
                     ELSE {n \in WellIdLengths :
                              p + n - 1 <= Len(q) /\ IsWellId(SubSeq(q, p, p + n - 1))}
         IN  IF lens = {} THEN WellIdsFrom(q, p + 1)
             ELSE LET n == CHOOSE x \in lens : \A y \in lens : y <= x
                  IN  {upper(SubSeq(q, p, p + n - 1))} \cup WellIdsFrom(q, p + n)

IsIsoDate(t) ==
    /\ Len(t) = 10
    /\ AllIn(t, 1, 4, DigitC) /\ Char(t, 5) = "-"
    /\ AllIn(t, 6, 7, DigitC) /\ Char(t, 8) = "-"
    /\ AllIn(t, 9, 10, DigitC)

IsNumericDate(t) ==
    \E a \in 1..2, b \in 1..2, c \in 2..4 :
        /\ Len(t) = a + b + c + 2
        /\ AllIn(t, 1, a, DigitC) /\ Char(t, a + 1) \in {"/", "-"}
        /\ AllIn(t, a + 2, a + b + 1, DigitC) /\ Char(t, a + b + 2) \in {"/", "-"}
        /\ AllIn(t, a + b + 3, a + b + c + 2, DigitC)

LowerMonths == {lower(MONTHS[i]) : i \in 1..Len(MONTHS)}

\* what follows the month name in the long form: spaces, 1 or 2 digits,
\* an optional comma, spaces, 4 digits
IsLongDateTail(t) ==
    \E s1 \in 1..Len(t), d \in 1..2, c \in 0..1 :
        LET s2 == Len(t) - (s1 + d + c + 4) IN
        /\ s2 >= 1
        /\ AllIn(t, 1, s1, SpaceC)
        /\ AllIn(t, s1 + 1, s1 + d, DigitC)
        /\ AllIn(t, s1 + d + 1, s1 + d + c, {","})
        /\ AllIn(t, s1 + d + c + 1, s1 + d + c + s2, SpaceC)
        /\ AllIn(t, s1 + d + c + s2 + 1, Len(t), DigitC)

\* q has a piece that is a month name in any casing followed by such a tail
HasLongDate(q) ==
    LET lq == lower(q) IN
    \E p \in 1..Len(q), m \in LowerMonths :
        /\ StartsAt(lq, m, p)
        /\ \E e \in (p + Len(m))..Len(q) : IsLongDateTail(SubSeq(q, p + Len(m), e))

HasPiece(q, firsts, IsShape(_), lengths) ==
    \E p \in 1..Len(q) :
        /\ Char(q, p) \in firsts
        /\ \E n \in lengths : p + n - 1 <= Len(q) /\ IsShape(SubSeq(q, p, p + n - 1))

HasWellId(q) == HasPiece(q, LetterSet, IsWellId, WellIdLengths)

HasSiteKeyword(q) ==
    LET lq == lower(q) IN
    \E k \in 1..Len(flowstation_keywords) : Contains(lq, flowstation_keywords[k])

HasDate(q) ==
    \/ HasPiece(q, DigitC, IsIsoDate, {10})
    \/ HasPiece(q, DigitC, IsNumericDate, 6..10)
    \/ HasLongDate(q)

NoDuplicates(seq) == \A i, j \in 1..Len(seq) : i # j => seq[i] # seq[j]

\* C9: expand_query's result contains the original question unmodified
\* and no string twice; for every well identifier found in the uppercased
\* question it contains "well <id>" and "production <id>"; a question
\* with no identifier, no site keyword and no date yields exactly the
\* list of the original question alone.
C9_ExpandContract ==
    eq_done =>
        /\ eq_query \in Range(eq_result)
        /\ NoDuplicates(eq_result)
        /\ \A id \in WellIdsFrom(eq_query, 1) :
              /\ ("well " \o id) \in Range(eq_result)
              /\ ("production " \o id) \in Range(eq_result)
        /\ eq_result # << eq_query >>
              => (HasSiteKeyword(eq_query) \/ HasDate(eq_query) \/ HasWellId(eq_query))

\* a question in lower case with an identifier, whose list had the
\* question twice before the duplicates were removed
C9_Witness ==
    /\ eq_done
    /\ WellIdsFrom(eq_query, 1) # {}
    /\ eq_query # upper(eq_query)
    /\ ~NoDuplicates(expand_query_list(eq_query))

\* a question with nothing to extract
C9_WitnessPlain ==
    /\ eq_done
    /\ eq_query = "  "
    /\ eq_result = << "  " >>

\* a synthetic date query: "date <something> production"
IsDateQuery(r) ==
    /\ Len(r) >= 16
    /\ StartsAt(r, "date ", 1)
    /\ StartsAt(r, " production", Len(r) - 10)

\* C11: date extraction contributes at most one synthetic query per
\* question: the result of expand_query holds at most one string of the
\* form "date <match> production", whatever number of date patterns match.
C11_OneDateQuery ==
    eq_done => Cardinality({r \in Range(eq_result) : IsDateQuery(r)}) <= 1

(***************************************************************************)
(* Claims about a turn (Spec)                                              *)
(***************************************************************************)
CallsOf(op) == {i \in 1..Len(calls) : calls[i].op = op}

UPSTREAM == {"encode", "query", "predict"}

\* every consumed query was answered by the index, with no candidate
AllAnsweredEmpty ==
    /\ pc # "idle"
    /\ Cardinality(CallsOf("query")) = Len(ConsumedQueries)
    /\ \A i \in CallsOf("query") : calls[i].ok /\ ~HasDocuments(calls[i].got)

\* C3: when every consumed query yields zero candidates, query_chatbot
\* returns the fixed no-data message, and neither reranker.predict nor the
\* LLM backend is called in that turn.
C3_EmptyRetrievalStops ==
    AllAnsweredEmpty =>
        /\ CallsOf("predict") = {} /\ CallsOf("llm") = {}
        /\ pc \in {"retrieving", "returned", "done"}
        /\ pc \in {"returned", "done"} => outcome = Return(NO_DATA_MESSAGE)
        /\ pc = "done" => response = Return(NO_DATA_MESSAGE)

\* three queries, no candidate, the turn is over
C3_Witness ==
    /\ AllAnsweredEmpty
    /\ Len(ConsumedQueries) = 3
    /\ pc = "done"
    /\ response.value = NO_DATA_MESSAGE

\* C4: groq_llm_inference never raises: when the call to the LLM backend
\* fails with message m it returns a string that starts with the warning
\* marker and contains m, and when the call succeeds it returns the
\* completion text unchanged.
C4_SynthesizerCatches ==
    \A i \in CallsOf("llm") :
        /\ i = Len(calls)
        /\ outcome.kind = "return"
        /\ calls[i].ok => outcome.value = calls[i].detail
        /\ ~calls[i].ok =>
              /\ StartsAt(outcome.value, WARNING_MARKER, 1)
              /\ Contains(outcome.value, calls[i].detail)

\* the LLM backend failed and query_chatbot returned the error string
C4_Witness ==
    /\ pc = "returned"
    /\ calls # <<>>
    /\ calls[Len(calls)].op = "llm"
    /\ ~calls[Len(calls)].ok
    /\ outcome = Return(LLM_ERROR_PREFIX \o calls[Len(calls)].detail)

IsCompletion(value) ==
    /\ calls # <<>>
    /\ calls[Len(calls)].op = "llm"
    /\ calls[Len(calls)].ok
    /\ value = calls[Len(calls)].detail

\* C5 as claimed: query_chatbot never raises to its caller, whatever its
\* collaborators do; it returns a synthesized answer, the no-data message
\* or an error string.
C5_QueryChatbotNeverRaises ==
    pc \in {"returned", "raised", "done"} =>
        /\ outcome.kind = "return"
        /\ \/ IsCompletion(outcome.value)
           \/ outcome.value = NO_DATA_MESSAGE
           \/ StartsAt(outcome.value, WARNING_MARKER, 1)

\* C5 as amended: process_query never raises to its caller and returns a
\* synthesized answer, the no-data message or an error string; query_chatbot
\* raises when the embedding model, the index or the reranker failed, and
\* returns when the LLM backend failed.
C5_HandlerNeverRaises ==
    /\ pc # "crashed"
    /\ pc = "done" =>
          /\ response.kind = "return"
          /\ \/ IsCompletion(response.value)
             \/ response.value = NO_DATA_MESSAGE
             \/ StartsAt(response.value, WARNING_MARKER, 1)
    /\ \A i \in 1..Len(calls) :
          ~calls[i].ok => outcome.kind = (IF calls[i].op \in UPSTREAM THEN "raise" ELSE "return")

\* query_chatbot raised and process_query returned an error string
C5_Witness ==
    /\ pc = "done"
    /\ outcome.kind = "raise"
    /\ response.kind = "return"
    /\ StartsAt(response.value, WARNING_MARKER, 1)

\* C6: a failure of the embedding model, the index or the reranker is not
\* recovered in the pipeline: the failed call is the last call of the turn
\* (the LLM backend is not called, no prompt is sent), query_chatbot raises
\* the error, and process_query returns the warning-marked string that
\* contains the error text.
C6_UpstreamFailurePropagates ==
    \A i \in 1..Len(calls) :
        (~calls[i].ok /\ calls[i].op \in UPSTREAM) =>
            /\ i = Len(calls)
            /\ CallsOf("llm") = {}
            /\ outcome = Raise(calls[i].detail)
            /\ pc \in {"raised", "done"}
            /\ pc = "done" =>
                  /\ response.kind = "return"
                  /\ StartsAt(response.value, WARNING_MARKER, 1)
                  /\ Contains(response.value, calls[i].detail)

\* the index failed on a later query, after chunks had been retrieved
C6_Witness ==
    /\ pc = "done"
    /\ calls # <<>>
    /\ calls[Len(calls)].op = "query"
    /\ ~calls[Len(calls)].ok
    /\ all_chunks # <<>>
    /\ response = Return(HANDLER_ERROR_PREFIX \o calls[Len(calls)].detail)

HasDeduped == pc = "reranking" \/ CallsOf("predict") # {}

FirstIndex(seq, x) == CHOOSE i \in 1..Len(seq) : seq[i] = x /\ \A j \in 1..(i - 1) : seq[j] # x

\* C7: the deduplicated list has each distinct chunk text of the merged
\* list exactly once, in the order of first appearance, with the metadata
\* of that first occurrence; it is no longer than the merged list, and
\* the chunks and the metadatas have the same length.
C7_DedupeFirstWins ==
    HasDeduped =>
        /\ Len(unique_chunks) = Len(unique_metadatas)
        /\ Len(unique_chunks) <= Len(all_chunks)
        /\ NoDuplicates(unique_chunks)
        /\ Range(unique_chunks) = Range(all_chunks)
        /\ \A i \in 1..Len(unique_chunks) :
              unique_metadatas[i] = all_metadatas[FirstIndex(all_chunks, unique_chunks[i])]
        /\ \A i, j \in 1..Len(unique_chunks) :
              i < j => FirstIndex(all_chunks, unique_chunks[i]) < FirstIndex(all_chunks, unique_chunks[j])

\* a text retrieved twice, with different metadata
C7_Witness ==
    /\ HasDeduped
    /\ Len(unique_chunks) >= 2
    /\ \E i, j \in 1..Len(all_chunks) :
          i < j /\ all_chunks[i] = all_chunks[j] /\ all_metadatas[i] # all_metadatas[j]

HasReranked == \E i \in CallsOf("predict") : calls[i].ok

\* C8: reranking keeps every deduplicated chunk exactly once, with its
\* metadata and its score, ordered by non-increasing score, chunks of equal
\* score in their order after deduplication; scores 0.2, 0.9, 0.5 for A, B,
\* C give the order B, C, A.
C8_RerankStableDescending ==
    HasReranked =>
        LET n == Len(reranked_with_scores)
            origin(i) == FirstIndex(unique_chunks, reranked_with_scores[i].chunk)
        IN  /\ n = Len(unique_chunks)
            /\ {reranked_with_scores[i].chunk : i \in 1..n} = Range(unique_chunks)
            /\ \A i \in 1..n :
                  /\ reranked_with_scores[i].meta = unique_metadatas[origin(i)]
                  /\ reranked_with_scores[i].score = scores[origin(i)]
            /\ \A i \in 1..(n - 1) :
                  /\ reranked_with_scores[i].score >= reranked_with_scores[i + 1].score
                  /\ reranked_with_scores[i].score = reranked_with_scores[i + 1].score
                        => origin(i) < origin(i + 1)
            /\ (unique_chunks = << "A", "B", "C" >> /\ scores = << 2, 9, 5 >>)
                  => [i \in 1..n |-> reranked_with_scores[i].chunk] = << "B", "C", "A" >>

\* three chunks, two of them of equal score, the best one not the first
C8_Witness ==
    /\ HasReranked
    /\ unique_chunks = << "A", "B", "C" >>
    /\ scores = << 5, 9, 5 >>
    /\ [i \in 1..3 |-> reranked_with_scores[i].chunk] = << "B", "A", "C" >>

\* the calls of one kind, in the order they were made
CallSeq(op) == SelectSeq(calls, LAMBDA c : c.op = op)

RECURSIVE Merged(_, _, _)
\* the lists the answered index calls cs[i..] returned under `field`,
\* one after the other
Merged(cs, field, i) ==
    IF i > Len(cs) THEN <<>>
    ELSE (IF cs[i].got[field] = <<>> THEN <<>> ELSE cs[i].got[field][1])
         \o Merged(cs, field, i + 1)

\* all calls so far to the embedding model and the index were answered
RetrievalAnswered == \A i \in CallsOf("encode") \cup CallsOf("query") : calls[i].ok

\* C12: in a turn the queries embedded are the first (at most 3) expanded
\* queries in their order, each followed by one index call, so at most 3
\* index calls and exactly one per consumed query once the loop is over;
\* each index call requests TOP_K \div (number of consumed queries), that
\* is 30, 15 or 10; and the merged candidates and metadatas are the
\* per-query results one after the other in the order of the calls.
C12_RetrievalFanOut ==
    pc # "idle" =>
        LET k == IF Len(expanded_queries) < 3 THEN Len(expanded_queries) ELSE 3
            enc == CallSeq("encode")
            qs == CallSeq("query")
        IN  /\ Len(qs) <= Len(enc) /\ Len(enc) <= k /\ k <= 3
            /\ \A i \in 1..Len(enc) : enc[i].ok => enc[i].detail = expanded_queries[i]
            /\ \A i \in CallsOf("query") : calls[i - 1].op = "encode" /\ calls[i - 1].ok
            /\ \A i \in 1..Len(qs) : qs[i].n = TOP_K \div k /\ qs[i].n \in {30, 15, 10}
            /\ (pc # "retrieving" /\ RetrievalAnswered) => Len(qs) = k
            /\ all_chunks = Merged(qs, "documents", 1)
            /\ all_metadatas = Merged(qs, "metadatas", 1)

\* four expanded queries, three consumed with 10 results asked of each,
\* the first answered with other documents than the second
C12_Witness ==
    /\ pc = "reranking"
    /\ Len(expanded_queries) = 4
    /\ Len(CallSeq("query")) = 3
    /\ \A i \in CallsOf("query") : calls[i].n = 10
    /\ CallSeq("query")[1].got.documents = << << "C", "B" >> >>
    /\ CallSeq("query")[2].got.documents = << << "A" >> >>
    /\ all_chunks = << "C", "B", "A", "A", "B" >>

\* the prompt has been composed
HasComposed == prompt # ""

\* the metadata of the i-th ranked chunk
RankedMeta(i) == reranked_with_scores[i].meta

Field(label, shown) == "[" \o label \o ": " \o shown \o "]"

\* the field of an alias pair when a present primary key always wins
PreferPresent(meta, label, primary, alias) ==
    IF primary \in DOMAIN meta THEN << Field(label, meta[primary]) >>
    ELSE IF alias \in DOMAIN meta THEN << Field(label, meta[alias]) >>
    ELSE <<>>

\* the prefix with a field for the keys that are present and for no other
PrefixOfPresentKeys(meta) ==
    Join(" ", (IF "collection" \in DOMAIN meta
               THEN << Field("Collection", meta["collection"]) >> ELSE <<>>)
              \o (IF "asset" \in DOMAIN meta THEN << Field("Asset", meta["asset"]) >> ELSE <<>>)
              \o PreferPresent(meta, "Flowstation", "flowStation", "flowstation")
              \o PreferPresent(meta, "Date", "date", "productionDate"))

\* C13 as claimed: the annotated chunk is prefix, newline, chunk text, the
\* prefix holding in the order collection, asset, flowstation, date a field
\* only for a key that is present, flowStation before flowstation and date
\* before productionDate when both are present.
C13_PrefixOnlyPresentKeys ==
    HasComposed =>
        /\ Len(context_parts) = Len(limited_chunks)
        /\ \A i \in 1..Len(limited_chunks) :
              context_parts[i] = PrefixOfPresentKeys(RankedMeta(i)) \o "\n" \o limited_chunks[i]

\* the field of an alias pair: the primary key's value unless that key is
\* absent or its value empty, then the alias key's value, None if absent
PreferNonEmpty(meta, label, primary, alias) ==
    IF primary \notin DOMAIN meta /\ alias \notin DOMAIN meta THEN <<>>
    ELSE IF primary \in DOMAIN meta /\ meta[primary] # "" THEN << Field(label, meta[primary]) >>
    ELSE IF alias \in DOMAIN meta THEN << Field(label, meta[alias]) >>
    ELSE << Field(label, "None") >>

PrefixWithCollection(meta) ==
    Join(" ", << Field("Collection",
                       IF "collection" \in DOMAIN meta THEN meta["collection"] ELSE "Unknown") >>
              \o (IF "asset" \in DOMAIN meta THEN << Field("Asset", meta["asset"]) >> ELSE <<>>)
              \o PreferNonEmpty(meta, "Flowstation", "flowStation", "flowstation")
              \o PreferNonEmpty(meta, "Date", "date", "productionDate"))

\* C13 (amended): the annotated chunk is prefix, newline, chunk text; the
\* prefix always starts with the collection field, which shows Unknown
\* when the key is absent; asset, flowstation and date follow in that
\* order, each only when one of its keys is present; the flowstation and
\* date fields show the primary key's value unless that key is absent or
\* its value empty, and then the alias key's value.
C13_PrefixCollectionAlways ==
    HasComposed =>
        /\ Len(context_parts) = Len(limited_chunks)
        /\ \A i \in 1..Len(limited_chunks) :
              context_parts[i] = PrefixWithCollection(RankedMeta(i)) \o "\n" \o limited_chunks[i]

\* two selected chunks: one whose metadata has the alias keys only and no
\* collection, one whose metadata has both keys of each pair
C13_Witness ==
    /\ HasComposed
    /\ Len(limited_chunks) = 2
    /\ RankedMeta(1) = META_ALIAS
    /\ RankedMeta(2) = META_BOTH
    /\ context_parts[1] = "[Collection: Unknown] [Flowstation: Ekulama] [Date: 2025-10-02]\nA"
    /\ context_parts[2] = "[Collection: prod] [Flowstation: Awoba] [Date: 2025-10-01]\nC"

\* a selected chunk whose primary keys have empty values
C13_WitnessEmptyPrimary ==
    /\ HasComposed
    /\ \E i \in 1..Len(limited_chunks) :
          /\ RankedMeta(i) = META_EMPTY
          /\ context_parts[i] = "[Collection: prod] [Flowstation: Ekulama] [Date: None]\nB"

\* the turn is over, candidates were retrieved and every call was answered
CompletedCleanly ==
    /\ pc \in {"returned", "done"}
    /\ all_chunks # <<>>
    /\ \A i \in 1..Len(calls) : calls[i].ok

\* C14: when retrieval is non-empty and no collaborator fails, the
\* context of the prompt is the longest prefix of the chunks in rank
\* order (scores descending) that fits MAX_TOKENS, each chunk annotated
\* with a metadata it was retrieved with, the parts joined by the
\* separator; the prompt holds the question verbatim after the context;
\* and query_chatbot returns exactly the text the LLM backend returned.
C14_EndToEnd ==
    CompletedCleanly =>
        LET ranked == reranked_with_scores
            k == Len(limited_chunks)
        IN  /\ {ranked[i].chunk : i \in 1..Len(ranked)} = Range(all_chunks)
            /\ \A i, j \in 1..Len(ranked) :
                  i < j => ranked[i].score >= ranked[j].score /\ ranked[i].chunk # ranked[j].chunk
            /\ \A i \in 1..Len(ranked) :
                  \E u \in 1..Len(unique_chunks) :
                      unique_chunks[u] = ranked[i].chunk /\ scores[u] = ranked[i].score
            /\ k <= Len(ranked)
            /\ \A i \in 1..k : limited_chunks[i] = ranked[i].chunk
            /\ TokenSum(limited_chunks) <= MAX_TOKENS
            /\ k < Len(ranked) =>
                  TokenSum(limited_chunks) + NumTokens(ranked[k + 1].chunk) > MAX_TOKENS
            /\ Len(context_parts) = k
            /\ \A i \in 1..k :
                  \E j \in 1..Len(all_chunks) :
                      /\ all_chunks[j] = limited_chunks[i]
                      /\ all_metadatas[j] = ranked[i].meta
                      /\ context_parts[i] =
                            PrefixWithCollection(all_metadatas[j]) \o "\n" \o limited_chunks[i]
            /\ prompt = PROMPT_HEAD \o Join(CONTEXT_SEPARATOR, context_parts)
                            \o PROMPT_QUESTION \o user_question \o PROMPT_TAIL
            /\ CallsOf("llm") = {Len(calls)}
            /\ outcome = Return(calls[Len(calls)].detail)

\* retrieved in the order A, B, C and ranked C, A, B: the context is C
\* and A, B does not fit, and the answer is the completion
C14_Witness ==
    /\ CompletedCleanly
    /\ pc = "done"
    /\ all_chunks = << "A", "B", "C", "B" >>
    /\ limited_chunks = << "C", "A" >>
    /\ Len(reranked_with_scores) = 3
    /\ context_parts[2] = "[Collection: Unknown] [Flowstation: Ekulama] [Date: 2025-10-02]\nA"
    /\ response = Return("Awoba produced 1200.50 barrels.")

\* C15: in a turn the calls go forward without retry: every call to the
\* embedding model or the index is before the call to the reranker, which
\* is before the call to the LLM backend; the reranker is called at most
\* once, with one pair per unique chunk, and the LLM backend at most once;
\* no query is embedded twice; and a call that failed is the last call of
\* the turn.
C15_ForwardNoRetry ==
    /\ \A i \in CallsOf("encode") \cup CallsOf("query"), j \in CallsOf("predict") : i < j
    /\ \A i \in CallsOf("encode") \cup CallsOf("query") \cup CallsOf("predict"),
          j \in CallsOf("llm") : i < j
    /\ CallsOf("llm") # {} => CallsOf("predict") # {}
    /\ Cardinality(CallsOf("predict")) <= 1
    /\ Cardinality(CallsOf("llm")) <= 1
    /\ \A i \in CallsOf("predict") : calls[i].n = Cardinality(Range(all_chunks))
    /\ \A i, j \in CallsOf("encode") :
          (i # j /\ calls[i].ok /\ calls[j].ok) => calls[i].detail # calls[j].detail
    /\ \A i \in 1..Len(calls) : ~calls[i].ok => i = Len(calls)

\* three queries answered, the reranker answered, the LLM backend failed:
\* eight calls, the failed one last, and the turn is over
C15_Witness ==
    /\ pc = "done"
    /\ Len(calls) = 8
    /\ Cardinality(CallsOf("query")) = 3
    /\ Cardinality(CallsOf("predict")) = 1
    /\ calls[8].op = "llm" /\ ~calls[8].ok

\* the reranker failed after two queries: no call follows
C15_WitnessUpstream ==
    /\ pc = "crashed" \/ pc = "done"
    /\ Len(calls) = 5
    /\ calls[5].op = "predict" /\ ~calls[5].ok

\* C17: in every turn whose retrieval loop ran to its end, the original
\* question is one of the queries that were embedded and sent to the
\* index, whatever the order of the expanded queries.
C17_OriginalAlwaysSent ==
    (pc \notin {"idle", "retrieving"} /\ RetrievalAnswered) =>
        \E i \in CallsOf("encode") : calls[i].detail = user_question

(***************************************************************************)
(* Claims about get_vector_db (SpecDb)                                     *)
(***************************************************************************)
PRIORITY == << "cloud", "local", "docker" >>

\* the body of get_vector_db ran in this call and has ended
DbBodyEnded == db_pc \in {"returned", "raised"} /\ db_tries # <<>>

AllTriesFailed ==
    /\ Len(db_tries) = 3
    /\ \A i \in 1..3 : db_tries[i].how # "ok"

\* C16: get_vector_db tries cloud, local, docker in that order; a try
\* whose initialisation fails gives None and never raises; no try follows
\* a try that gave a collection; when it returns, it returns the
\* collection of the last try, the first that succeeded, with that
\* backend's label; and it raises RuntimeError exactly when all three
\* tries were made and failed.
C16_BackendPriority ==
    /\ Len(db_tries) <= 3
    /\ \A i \in 1..Len(db_tries) :
          /\ db_tries[i].backend = PRIORITY[i]
          /\ db_tries[i].result.kind = "return"
          /\ db_tries[i].how # "ok" <=> db_tries[i].result.value = None_
          /\ i < Len(db_tries) => db_tries[i].how # "ok"
    /\ (db_pc = "returned" /\ db_tries # <<>>) =>
          LET last == db_tries[Len(db_tries)]
          IN  /\ last.how = "ok"
              /\ db_result = DbReturn(last.result.value, last.backend)
              /\ db_result.label \in {"cloud", "local", "docker"}
    /\ (db_pc = "returned" /\ db_tries = <<>>) => db_result = db_cache
    /\ db_pc \in {"returned", "raised"} =>
          ((db_result.kind = "raise" /\ db_result.type = "RuntimeError") <=> AllTriesFailed)

\* cloud and local failed, docker gave its collection
C16_Witness ==
    /\ db_pc = "returned"
    /\ Len(db_tries) = 3
    /\ db_tries[1].how = "no_folder"
    /\ db_tries[2].how = "client_raises"
    /\ db_result.label = "docker"
    /\ db_result.collection = Collection("HttpClient", "chroma:9000")

\* all three failed: RuntimeError
C16_WitnessAllFail ==
    /\ db_pc = "raised"
    /\ AllTriesFailed
    /\ db_result.type = "RuntimeError"

(***************************************************************************)
(* Claims about the chat app (SpecApp)                                     *)
(***************************************************************************)
\* the first n messages are exchanges: a user message, then an assistant
\* message whose content is a string process_query can return
CompleteExchanges(n) ==
    /\ n % 2 = 0
    /\ \A i \in 1..n :
          messages[i].role = (IF i % 2 = 1 THEN "user" ELSE "assistant")
    /\ \A i \in 1..n :
          i % 2 = 0 => \E chatbot \in ChatbotOutcomes :
                          messages[i].content = process_query(chatbot).value

\* C18: whenever the app waits for the user, the history is a sequence of
\* complete exchanges (even length, user and assistant alternating); while
\* a question is processed the history is such a sequence followed by
\* that question's user message, which the next message answers; and
\* after the clear button the history is empty.
C18_CompleteExchanges ==
    /\ app_pc \in {"start", "stopped", "waiting", "rerun"} => CompleteExchanges(Len(messages))
    /\ app_pc \in {"processing_example", "processing_input"} =>
          /\ messages # <<>>
          /\ CompleteExchanges(Len(messages) - 1)
          /\ messages[Len(messages)] = Message("user", user_input)
    /\ (app_pc = "waiting" /\ app_event = "clear") => messages = <<>>

\* an example was clicked and answered, a question was typed and answered
\* with an error string: two complete exchanges
C18_Witness ==
    /\ app_pc = "waiting"
    /\ Len(messages) = 4
    /\ messages[1] = Message("user", examples[1])
    /\ messages[3] = Message("user", "fs")
    /\ messages[4] = Message("assistant", HANDLER_ERROR_PREFIX \o "connection refused")

\* the history was cleared after an exchange and an example was clicked
C18_WitnessCleared ==
    /\ app_pc = "rerun"
    /\ app_event = "example"
    /\ messages = <<>>
    /\ user_input # ""
====
